---- MODULE Spec2Model ----
(***************************************************************************)
(* Model of the Telegram webhook dispatcher: the shared fixed-window rate  *)
(* limiter of the outbound client (TelegramApi), the outbound operations,  *)
(* the update classifier and command extraction of the execution context   *)
(* and the dispatch table of TelegramBot.handle.                           *)
(***************************************************************************)
EXTENDS Integers, Sequences, FiniteSets, TLC

\* ---------------------------------------------------------------- bounds
MaxCalls == 62
MaxSleepers == 2
MaxTime == 2000
Step == 500
MaxCommands == 2
MaxLiveCalls == 34
MaxSetupCalls == 4

\* ------------------------------------------------------ program constants
WindowMs == 1000
RateCap == 30

VARIABLES
  now,            \* Date.now()
  requestCount,   \* TelegramApi.requestCount (static)
  resetTime,      \* TelegramApi.resetTime (static)
  entered,        \* number of rateLimit() invocations so far
  due,            \* suspended rateLimit() callers -> time their timer is due
  winPassed,      \* history: calls that proceeded while the window end had its current value
  lastEntry,      \* history: the latest rateLimit() entry
  lastResume,     \* history: the latest resumption of a suspended caller
  ops,            \* outbound client operations in flight, one per slot
  clsUpdate,      \* the update handed to `new TelegramExecutionContext(bot, update)`
  clsContext,     \* the context it built
  webhook,        \* TelegramBot.webhook
  commands,       \* TelegramBot.commands
  events,         \* TelegramBot.events
  commandList,    \* TelegramBot.commandList
  botUpdate,      \* TelegramBot.update
  currentContext, \* TelegramBot.currentContext
  req,            \* the handle() call in progress
  repCtx,         \* the execution context whose operations are called
  rep,            \* the execution-context operation in progress
  initCall,       \* the initializeCommands() call in progress
  instOf,         \* history: the client instance of each rateLimit() caller
  sinceReset,     \* history: per instance, calls that proceeded since the count was last zeroed
  reqs            \* overlapping handle() calls, one per slot

limVars == <<now, requestCount, resetTime, entered, due, winPassed, lastEntry, lastResume>>
clsVars == <<clsUpdate, clsContext>>
botVars == <<webhook, commands, events, commandList, botUpdate, currentContext, req>>
auxVars == <<repCtx, rep, initCall, instOf, sinceReset, reqs>>
vars == <<limVars, ops, clsVars, botVars, auxVars>>

NoEntry == [id |-> 0, ahead |-> 0, suspended |-> FALSE]
NoResume == [id |-> 0, at |-> 0, windowEnd |-> 0, countAfter |-> 0, resetAfter |-> 0]

\* the static fields of TelegramApi as the class is loaded, at time 0
LimStart ==
  /\ now = 0
  /\ requestCount = 0
  /\ resetTime = 0 + WindowMs
  /\ entered = 0
  /\ due = <<>>
  /\ winPassed = 0
  /\ lastEntry = NoEntry
  /\ lastResume = NoResume

\* -------------------------------------------------- TelegramApi.rateLimit
\* variant of Expired that never finds the window ended
ExpiredNever(t, rt) == FALSE
Expired(t, rt) == t > rt

\* variant of MustWait with `>` for `>=`
MustWaitOffByOne(cnt) == cnt > RateCap
MustWait(cnt) == cnt >= RateCap

WaitTime(rt, t) == rt - t

\* the synchronous part of rateLimit(): expiry check, cap check, then either
\* the timer is armed (caller c suspended) or the count is incremented
RateLimitEnter(c) ==
  LET rt1 == IF Expired(now, resetTime) THEN now + WindowMs ELSE resetTime
      cnt1 == IF Expired(now, resetTime) THEN 0 ELSE requestCount
      win1 == IF rt1 = resetTime THEN winPassed ELSE 0
  IN /\ c \notin DOMAIN due
     /\ resetTime' = rt1
     /\ IF MustWait(cnt1)
        THEN /\ requestCount' = cnt1
             /\ due' = due @@ (c :> [timer |-> now + WaitTime(rt1, now), windowEnd |-> rt1])
             /\ winPassed' = win1
        ELSE /\ requestCount' = cnt1 + 1
             /\ due' = due
             /\ winPassed' = win1 + 1
     /\ lastEntry' = [id |-> c, ahead |-> win1, suspended |-> MustWait(cnt1)]
     /\ UNCHANGED <<now, lastResume>>

\* the continuation of rateLimit() after the awaited timer has fired
RateLimitResume(c) ==
  /\ c \in DOMAIN due
  /\ now >= due[c].timer
  /\ resetTime' = now + WindowMs
  /\ requestCount' = 0 + 1
  /\ winPassed' = (IF now + WindowMs = resetTime THEN winPassed ELSE 0) + 1
  /\ due' = [d \in (DOMAIN due) \ {c} |-> due[d]]
  /\ lastResume' = [id |-> c, at |-> now, windowEnd |-> due[c].windowEnd,
                    countAfter |-> requestCount', resetAfter |-> resetTime']
  /\ UNCHANGED <<now, lastEntry>>

\* time passes
Advance ==
  /\ now + Step <= MaxTime
  /\ now' = now + Step
  /\ UNCHANGED <<requestCount, resetTime, entered, due, winPassed, lastEntry, lastResume, ops, clsVars, auxVars, botVars>>

\* ------------------------------------------- TelegramApi operations
PostOps == {"sendMessage", "sendPhoto", "sendVideo", "sendChatAction",
            "answerInline", "answerCallback"}
SendOps == PostOps \cup {"sendDocument", "setMyCommands"}
ApiOps == SendOps \cup {"getFile"}

\* the argument that decides an operation's path: the document payload of
\* sendDocument (a Blob, a Blob next to an extra key whose value is undefined,
\* or a file id / URL), the file id of getFile
ApiArgs(op) ==
  CASE op = "sendDocument" -> {"blob", "blobUndef", "ref"}
    [] op = "getFile" -> {"", "file1"}
    [] OTHER -> {"params"}

\* post(): rateLimit, then one fetch
PostPlan == <<"rateLimit", "fetch">>
\* get(): rateLimit, then one fetch
GetPlan == <<"rateLimit", "fetch">>

\* sendDocument(): a Blob goes out as multipart form data, built and sent by
\* a fetch of its own; anything else goes through post()
IsBlob(arg) == arg \in {"blob", "blobUndef"}
SendDocumentPlan(arg) == IF IsBlob(arg) THEN <<"form", "fetch">> ELSE PostPlan

\* the steps an operation takes, in order
ApiPlan(op, arg) ==
  CASE op = "setMyCommands" -> <<"rateLimit">> \o PostPlan
    [] op = "sendDocument" -> SendDocumentPlan(arg)
    [] op = "getFile" -> <<"rateLimit", "checkFileId">> \o GetPlan \o <<"fetchFile">>
    [] OTHER -> PostPlan

IdleOp == [op |-> "none", arg |-> "", pc |-> 0, passes |-> 0, fetches |-> 0,
           result |-> "none"]

\* one operation is in flight at a time here; concurrent rateLimit() callers
\* are the subject of SpecLimiter
ApiSlots == {1}

ApiStart == ops = [s \in ApiSlots |-> IdleOp]

StepOf(o) == IF o.pc \in 1..Len(ApiPlan(o.op, o.arg)) THEN ApiPlan(o.op, o.arg)[o.pc] ELSE "end"

\* a client operation is called
ApiInvoke(s, op, arg) ==
  /\ ops[s].op = "none"
  /\ ops' = [ops EXCEPT ![s] = [op |-> op, arg |-> arg, pc |-> 1, passes |-> 0,
                                fetches |-> 0, result |-> "none"]]
  /\ UNCHANGED <<limVars, clsVars, auxVars, botVars>>

\* the operation reaches an `await this.rateLimit()`
ApiRateLimit(s) ==
  /\ ops[s].result = "none"
  /\ StepOf(ops[s]) = "rateLimit"
  /\ RateLimitEnter(s)
  /\ UNCHANGED <<entered, clsVars, auxVars, botVars>>
  /\ ops' = IF s \in DOMAIN due' THEN ops
            ELSE [ops EXCEPT ![s].pc = @ + 1, ![s].passes = @ + 1]

\* the operation's suspended rateLimit() resumes
ApiResume(s) ==
  /\ ops[s].result = "none"
  /\ RateLimitResume(s)
  /\ UNCHANGED <<entered, clsVars, auxVars, botVars>>
  /\ ops' = [ops EXCEPT ![s].pc = @ + 1, ![s].passes = @ + 1]

\* sendDocument(): the form data is filled; `params[key].toString()` on an
\* extra key whose value is undefined throws a TypeError
FormThrows(arg) == arg = "blobUndef"
ApiBuildForm(s) ==
  /\ ops[s].result = "none"
  /\ StepOf(ops[s]) = "form"
  /\ ops' = IF FormThrows(ops[s].arg)
            THEN [ops EXCEPT ![s].result = "throw"]
            ELSE [ops EXCEPT ![s].pc = @ + 1]
  /\ UNCHANGED <<limVars, clsVars, auxVars, botVars>>

\* getFile(): `if (!params.file_id) return new Response(..., 400)`
ApiCheckFileId(s) ==
  /\ ops[s].result = "none"
  /\ StepOf(ops[s]) = "checkFileId"
  /\ ops' = IF ops[s].arg = ""
            THEN [ops EXCEPT ![s].result = "400"]
            ELSE [ops EXCEPT ![s].pc = @ + 1]
  /\ UNCHANGED <<limVars, clsVars, auxVars, botVars>>

\* the request of post(), get() or the multipart branch goes out; the upstream
\* answers ok, answers with ok = false, or the transport throws (rethrown)
ApiFetch(s, outcome) ==
  /\ ops[s].result = "none"
  /\ StepOf(ops[s]) = "fetch"
  /\ ops' = IF ops[s].op = "getFile"
            THEN CASE outcome = "ok" -> [ops EXCEPT ![s].fetches = @ + 1, ![s].pc = @ + 1]
                   [] outcome = "fail" -> [ops EXCEPT ![s].fetches = @ + 1, ![s].result = "400"]
                   [] OTHER -> [ops EXCEPT ![s].fetches = @ + 1, ![s].result = "throw"]
            ELSE [ops EXCEPT ![s].fetches = @ + 1, ![s].result = outcome]
  /\ UNCHANGED <<limVars, clsVars, auxVars, botVars>>

\* getFile(): the binary fetch of the resolved file path
ApiFetchFile(s, outcome) ==
  /\ ops[s].result = "none"
  /\ StepOf(ops[s]) = "fetchFile"
  /\ ops' = [ops EXCEPT ![s].fetches = @ + 1,
                        ![s].result = IF outcome = "throw" THEN "throw" ELSE "file"]
  /\ UNCHANGED <<limVars, clsVars, auxVars, botVars>>

\* the caller takes the operation's result
ApiReturn(s) ==
  /\ ops[s].result # "none"
  /\ ops' = [ops EXCEPT ![s] = IdleOp]
  /\ UNCHANGED <<limVars, clsVars, auxVars, botVars>>

\* ------------------------------------------------- updates and contexts
\* texts are sequences of characters
Empty == <<>>
TxtHi == <<"h", "i">>
TxtGo == <<"/", "g", "o">>
TxtGoArgs == <<"/", "g", "o", " ", "x">>
TxtSlash == <<"/">>
TxtSpaceGo == <<" ", "/", "g", "o">>
TxtToString == <<"/", "t", "o", "S", "t", "r", "i", "n", "g">>
TxtGoTab == <<"/", "g", "o", "\t", "x">>
TxtGoNl == <<"/", "g", "o", "\n", "x">>
TxtGoAt == <<"/", "G", "o", "@", "b">>
CmdGo == <<"g", "o">>
CmdToString == <<"t", "o", "S", "t", "r", "i", "n", "g">>

\* the optional sub-objects of a TelegramUpdate; a text, query or id that is
\* absent and one that is the empty string are both Empty (both are falsy)
NoMessage ==
  [present |-> FALSE, text |-> Empty, photo |-> FALSE, document |-> FALSE,
   chat |-> FALSE, message_id |-> FALSE]
NoInline == [present |-> FALSE, query |-> Empty]
NoCallback == [present |-> FALSE, id |-> Empty]
NoBusiness ==
  [present |-> FALSE, text |-> Empty, chat |-> FALSE, message_id |-> FALSE,
   business_connection_id |-> FALSE]

Messages(texts) ==
  {NoMessage} \cup [present : {TRUE}, text : texts, photo : BOOLEAN, document : BOOLEAN,
                    chat : {TRUE}, message_id : {TRUE}]
Inlines(texts) == {NoInline} \cup [present : {TRUE}, query : texts]
Callbacks == {NoCallback} \cup [present : {TRUE}, id : {Empty, <<"1">>}]
Businesses(texts) ==
  {NoBusiness} \cup [present : {TRUE}, text : texts, chat : {TRUE}, message_id : {TRUE},
                     business_connection_id : {TRUE}]

ClsTexts ==
  {Empty, TxtHi, TxtGo, TxtGoArgs, TxtSlash, TxtSpaceGo, TxtGoTab, TxtGoNl, TxtGoAt}

\* the JSON values a webhook body can parse to: null, or an object
Updates ==
  [isNull : {FALSE}, message : Messages(ClsTexts), inline_query : Inlines({Empty, TxtGo}),
   callback_query : Callbacks, business_message : Businesses(ClsTexts)]

EmptyUpdate ==
  [isNull |-> FALSE, message |-> NoMessage, inline_query |-> NoInline,
   callback_query |-> NoCallback, business_message |-> NoBusiness]
NullUpdate == [EmptyUpdate EXCEPT !.isNull = TRUE]

\* UpdateType
UpdateTypes == {"message", "photo", "inline", "document", "callback", "business_message"}
NoType == "null"

\* the predicates of updateTypeMap
Predicate(type, u) ==
  CASE type = "photo" -> u.message.present /\ u.message.photo
    [] type = "document" -> u.message.present /\ u.message.document
    [] type = "message" -> u.message.present /\ u.message.text # Empty
    [] type = "inline" -> u.inline_query.present /\ u.inline_query.query # Empty
    [] type = "callback" -> u.callback_query.present /\ u.callback_query.id # Empty
    [] type = "business_message" -> u.business_message.present

\* variant of updateTypeMap with the Message entry moved to the front
updateTypeMapMessageFirst ==
  <<"message", "photo", "document", "inline", "callback", "business_message">>
\* the order of updateTypeMap
updateTypeMap == <<"photo", "document", "message", "inline", "callback", "business_message">>

\* the constructor's loop over updateTypeMap: the first match, then break
RECURSIVE FirstMatch(_, _)
FirstMatch(map, u) ==
  IF map = <<>> THEN NoType
  ELSE IF Predicate(Head(map), u) THEN Head(map)
  ELSE FirstMatch(Tail(map), u)

Classify(u) == FirstMatch(updateTypeMap, u)

\* String.prototype.startsWith, slice(1) and split(sep)[0] on texts
StartsWith(t, ch) == Len(t) > 0 /\ t[1] = ch
Slice1(t) == SubSeq(t, 2, Len(t))
SplitHead(t, sep) ==
  LET hits == {i \in 1..Len(t) : t[i] = sep}
      cut == IF hits = {} THEN Len(t) + 1 ELSE CHOOSE i \in hits : \A j \in hits : i <= j
  IN SubSeq(t, 1, cut - 1)

\* `command: string | null = null`
NullCommand == <<"null">>

\* `this.update.message?.text || this.update.business_message?.text || ''`
MessageText(u) ==
  IF u.message.present /\ u.message.text # Empty THEN u.message.text
  ELSE IF u.business_message.present /\ u.business_message.text # Empty
       THEN u.business_message.text
  ELSE Empty

\* variant of the command extraction without the test of the kind
ExtractCommandAnyKind(type, u) ==
  IF StartsWith(MessageText(u), "/")
  THEN SplitHead(Slice1(MessageText(u)), " ")
  ELSE NullCommand
\* the constructor's command extraction
ExtractCommand(type, u) ==
  IF type \in {"message", "business_message"} /\ StartsWith(MessageText(u), "/")
  THEN SplitHead(Slice1(MessageText(u)), " ")
  ELSE NullCommand

\* new TelegramExecutionContext(bot, update); a null update makes the first
\* predicate throw
ConstructorThrows(u) == u.isNull
NewContext(u) ==
  [update_type |-> Classify(u), command |-> ExtractCommand(Classify(u), u), update |-> u]

\* `currentContext!` before any request: undefined
NoContext == [update_type |-> "undefined", command |-> NullCommand, update |-> EmptyUpdate]

ClsStart == clsUpdate = EmptyUpdate /\ clsContext = NoContext

\* ------------------------------------------------------------ TelegramBot
Token == "T1"
TokenPath == "/" \o Token
Paths == {TokenPath, "/other", TokenPath \o "/x"}

\* functions: a callback registered under a command name or under an event,
\* a property inherited from Object.prototype, or undefined
CmdHandler(name) == [src |-> "cmd", key |-> name]
EvtHandler(type) == [src |-> "evt", key |-> <<type>>]
ProtoFunction(name) == [src |-> "proto", key |-> name]
Undefined == [src |-> "undefined", key |-> Empty]

\* `commands` is a plain object literal: a key that is not an own property is
\* looked up on Object.prototype
ObjectPrototypeNames == {CmdToString}

CmdNames == {CmdGo, CmdToString}

\* this.commands[name]
CommandsGet(name) ==
  IF name \in DOMAIN commands THEN commands[name]
  ELSE IF name \in ObjectPrototypeNames THEN ProtoFunction(name)
  ELSE Undefined

\* this.events[type]; no update type names a property of Object.prototype
EventsGet(type) == IF type \in DOMAIN events THEN events[type] ELSE Undefined

\* responses: status and body; a value that is not a Response has status 0
NoResponse == [status |-> 0, body |-> ""]
Raised == [status |-> 0, body |-> "raised"]
ObjectString == [status |-> 0, body |-> "[object Object]"]
Ok200 == [status |-> 200, body |-> "ok"]
NoHandler400 == [status |-> 400, body |-> "No handler for this update type"]
Unhandled400 == [status |-> 400, body |-> "Unhandled update type"]
Error500 == [status |-> 500, body |-> "Internal Server Error"]
HandlerResponse == [status |-> 200, body |-> "handler"]
HandlerResponseCreated == [status |-> 201, body |-> "created"]
WebhookResponse == [status |-> 200, body |-> "webhook"]

\* JavaScript truthiness of `ctx.command`
Truthy(cmd) == cmd # NullCommand /\ cmd # Empty

\* variant of Resolve without the `else`: command handler and kind handler
ResolveBoth(ctx) ==
  [calls |-> (IF Truthy(ctx.command) /\ CommandsGet(ctx.command) # Undefined
              THEN <<CommandsGet(ctx.command)>> ELSE <<>>)
             \o (IF EventsGet(ctx.update_type) # Undefined
                 THEN <<EventsGet(ctx.update_type)>> ELSE <<>>),
   response |-> NoHandler400]
\* the dispatch of handle(): the functions it calls, or the response it
\* returns without calling any
Resolve(ctx) ==
  IF ctx.update_type # NoType
  THEN IF Truthy(ctx.command) /\ CommandsGet(ctx.command) # Undefined
       THEN [calls |-> <<CommandsGet(ctx.command)>>, response |-> NoResponse]
       ELSE IF EventsGet(ctx.update_type) # Undefined
       THEN [calls |-> <<EventsGet(ctx.update_type)>>, response |-> NoResponse]
       ELSE [calls |-> <<>>, response |-> NoHandler400]
  ELSE [calls |-> <<>>, response |-> Unhandled400]

\* variant of PathMatches that accepts any path under the token
PathMatchesPrefix(path) == path \in {TokenPath, TokenPath \o "/x"}
\* `/${this.token}` === url.pathname
PathMatches(path) == TokenPath = path

\* variant of OnException for a handler call returned without `await`
OnExceptionHandlerEscapes(site) == IF site = "handler" THEN Raised ELSE Error500
\* the catch block of handle(): whatever was thrown inside the try, at any
\* site, becomes the 500 response
OnException(site) == Error500

IdleReq ==
  [phase |-> "idle", method |-> "", path |-> "", query |-> "", body |-> "",
   update |-> EmptyUpdate, ctx |-> NoContext, jsonCalled |-> FALSE, ctxBuilt |-> FALSE,
   invoked |-> <<>>, threw |-> FALSE, response |-> NoResponse,
   produced |-> NoResponse, hadContext |-> FALSE]

\* `new Webhook('', new Request('http://127.0.0.1'))`, then
\* `new Webhook(this.token, request)`: the token and the request's origin
InitialWebhook == [token |-> "", origin |-> "http://127.0.0.1"]
RequestWebhook == [token |-> Token, origin |-> "http://example.com"]

BotStart ==
  /\ webhook = InitialWebhook
  /\ commands = <<>>
  /\ events = <<>>
  /\ commandList = <<>>
  /\ botUpdate = EmptyUpdate
  /\ currentContext = NoContext
  /\ req = IdleReq

MsgUpdate(text) ==
  [EmptyUpdate EXCEPT !.message = [present |-> TRUE, text |-> text, photo |-> FALSE,
                                   document |-> FALSE, chat |-> TRUE, message_id |-> TRUE]]
PhotoUpdate(text) ==
  [EmptyUpdate EXCEPT !.message = [present |-> TRUE, text |-> text, photo |-> TRUE,
                                   document |-> FALSE, chat |-> TRUE, message_id |-> TRUE]]
InlineUpdate(text) == [EmptyUpdate EXCEPT !.inline_query = [present |-> TRUE, query |-> text]]
CallbackUpdate == [EmptyUpdate EXCEPT !.callback_query = [present |-> TRUE, id |-> <<"1">>]]
BusinessUpdate(text) ==
  [EmptyUpdate EXCEPT !.business_message =
     [present |-> TRUE, text |-> text, chat |-> TRUE, message_id |-> TRUE,
      business_connection_id |-> TRUE]]

\* the updates posted to the dispatcher
DispatchUpdates ==
  {MsgUpdate(TxtGo), MsgUpdate(TxtGoArgs), MsgUpdate(TxtHi), MsgUpdate(TxtToString),
   MsgUpdate(TxtSlash), PhotoUpdate(TxtGo), InlineUpdate(TxtGo), CallbackUpdate,
   BusinessUpdate(TxtGo), EmptyUpdate, NullUpdate}

\* the requests: method, path, `command` query parameter, body
Requests ==
  [method : {"POST"}, path : {TokenPath}, query : {""}, body : {"json"}, update : DispatchUpdates]
  \cup [method : {"POST"}, path : Paths, query : {""}, body : {"invalid"}, update : {EmptyUpdate}]
  \cup [method : {"POST"}, path : Paths \ {TokenPath}, query : {""}, body : {"json"},
        update : {MsgUpdate(TxtGo)}]
  \cup [method : {"GET", "PUT"}, path : Paths, query : {"", "set"}, body : {""},
        update : {EmptyUpdate}]

\* variant of onCommand that starts a fresh map and list on every call
OnCommandReplacing(name) ==
  /\ req.phase = "idle"
  /\ Len(commandList) < MaxCommands
  /\ commands' = [n \in {name} |-> CmdHandler(name)]
  /\ commandList' = <<name>>
  /\ UNCHANGED <<webhook, events, botUpdate, currentContext, req, limVars, ops, clsVars, auxVars>>
\* onCommand(command, description, callback)
OnCommand(name) ==
  /\ req.phase = "idle"
  /\ Len(commandList) < MaxCommands
  /\ commands' = [n \in (DOMAIN commands) \cup {name} |->
                    IF n = name THEN CmdHandler(name) ELSE commands[n]]
  /\ commandList' = Append(commandList, name)
  /\ UNCHANGED <<webhook, events, botUpdate, currentContext, req, limVars, ops, clsVars, auxVars>>

\* onEvent(event, callback)
OnEvent(type) ==
  /\ req.phase = "idle"
  /\ events' = [t \in (DOMAIN events) \cup {type} |->
                  IF t = type THEN EvtHandler(type) ELSE events[t]]
  /\ UNCHANGED <<webhook, commands, commandList, botUpdate, currentContext, req, limVars, ops, clsVars, auxVars>>

\* handle(request) up to its first await: the path and method checks
HandleBegin(r) ==
  /\ req.phase = "idle"
  /\ LET started == [IdleReq EXCEPT !.method = r.method, !.path = r.path, !.query = r.query,
                                    !.body = r.body, !.update = r.update,
                                    !.hadContext = (currentContext # NoContext)]
     IN req' =
          IF PathMatches(r.path) /\ r.method = "POST"
          THEN [started EXCEPT !.phase = "parsing", !.jsonCalled = TRUE]
          ELSE IF PathMatches(r.path) /\ r.method = "GET" /\ r.query = "set"
          THEN [started EXCEPT !.phase = "webhook"]
          ELSE [started EXCEPT !.phase = "done", !.response = Ok200]
  /\ webhook' = RequestWebhook
  /\ UNCHANGED <<commands, events, commandList, botUpdate, currentContext, limVars, ops, clsVars, auxVars>>

\* `await request.json()` settles; the context is built and the update is
\* dispatched
HandleParsed ==
  /\ req.phase = "parsing"
  /\ IF req.body = "invalid"
     THEN /\ req' = [req EXCEPT !.phase = "done", !.threw = TRUE,
                                !.response = OnException("json")]
          /\ UNCHANGED <<botUpdate, currentContext>>
     ELSE /\ botUpdate' = req.update
          /\ IF ConstructorThrows(req.update)
             THEN /\ req' = [req EXCEPT !.phase = "done", !.threw = TRUE,
                                        !.response = OnException("context")]
                  /\ UNCHANGED currentContext
             ELSE LET ctx == NewContext(req.update)
                      res == Resolve(ctx)
                  IN /\ currentContext' = ctx
                     /\ req' = IF res.calls # <<>>
                               THEN [req EXCEPT !.phase = "handler", !.ctx = ctx,
                                                !.ctxBuilt = TRUE, !.invoked = res.calls]
                               ELSE [req EXCEPT !.phase = "done", !.ctx = ctx,
                                                !.ctxBuilt = TRUE, !.response = res.response]
  /\ UNCHANGED <<webhook, commands, events, commandList, limVars, ops, clsVars, auxVars>>

\* the Response a registered handler resolves with
HandlerOutcomes == {"ok", "created", "throw"}
Produced(outcome) == IF outcome = "created" THEN HandlerResponseCreated ELSE HandlerResponse

\* variant of the dispatch that drops the handler's value and falls through
\* to the final `new Response('ok')`
HandleResultDropped(produced) == Ok200
\* `return await this.commands[...](ctx)` / `return await this.events[...](ctx)`
HandleResult(produced) == produced

\* the awaited call settles: a registered handler resolves with its Response,
\* throws or rejects; Object.prototype.toString returns a string
HandlerSettles(outcome) ==
  /\ req.phase = "handler"
  /\ req' = IF req.invoked[1].src = "proto"
            THEN [req EXCEPT !.phase = "done", !.produced = ObjectString,
                             !.response = HandleResult(ObjectString)]
            ELSE IF outcome # "throw"
            THEN [req EXCEPT !.phase = "done", !.produced = Produced(outcome),
                             !.response = HandleResult(Produced(outcome))]
            ELSE [req EXCEPT !.phase = "done", !.threw = TRUE,
                             !.response = OnException("handler")]
  /\ UNCHANGED <<webhook, commands, events, commandList, botUpdate, currentContext, limVars, ops, clsVars, auxVars>>

\* `await this.webhook.set()` settles
WebhookSettles(outcome) ==
  /\ req.phase = "webhook"
  /\ req' = IF outcome = "ok"
            THEN [req EXCEPT !.phase = "done", !.response = WebhookResponse]
            ELSE [req EXCEPT !.phase = "done", !.threw = TRUE,
                             !.response = OnException("webhook")]
  /\ UNCHANGED <<webhook, commands, events, commandList, botUpdate, currentContext, limVars, ops, clsVars, auxVars>>

\* the caller has the response
HandleReturn ==
  /\ req.phase = "done"
  /\ req' = IdleReq
  /\ UNCHANGED <<webhook, commands, events, commandList, botUpdate, currentContext, limVars, ops, clsVars, auxVars>>

\* ---------------------------------- TelegramExecutionContext operations
MessageKinds == {"message", "photo", "document"}

\* getChatId(): `message?.chat.id.toString()` throws a TypeError when the
\* message has no chat object
GetChatIdThrows(ctx) ==
  CASE ctx.update_type \in MessageKinds -> ~ctx.update.message.chat
    [] ctx.update_type = "business_message" -> ~ctx.update.business_message.chat
    [] OTHER -> FALSE
\* its value otherwise: the id of the chat, or ''
GetChatId(ctx) ==
  IF ctx.update_type \in MessageKinds \cup {"business_message"} THEN "chat.id" ELSE ""

\* getReplyToMessageId(): `message?.message_id.toString()` throws a TypeError
\* when the message has no message_id
GetReplyToMessageIdThrows(ctx) ==
  CASE ctx.update_type \in MessageKinds -> ~ctx.update.message.message_id
    [] ctx.update_type = "business_message" -> ~ctx.update.business_message.message_id
    [] OTHER -> FALSE
\* its value otherwise: the id of the message, or undefined
GetReplyToMessageId(ctx) ==
  IF ctx.update_type \in MessageKinds \cup {"business_message"}
  THEN "message_id" ELSE "undefined"

\* `business_message?.business_connection_id.toString()`
BusinessConnectionIdThrows(ctx) ==
  ctx.update_type = "business_message" /\ ~ctx.update.business_message.business_connection_id

\* what an operation does up to its first await: it returns without a call,
\* raises, or calls a client operation, inside a try/catch (guarded) or not
Returns == [kind |-> "return", method |-> "none", arg |-> "", guarded |-> FALSE]
Raises == [kind |-> "raise", method |-> "none", arg |-> "", guarded |-> FALSE]
Calls(method, arg, guarded) ==
  [kind |-> "call", method |-> method, arg |-> arg, guarded |-> guarded]

\* the SendDocumentParams reply() builds: parse_mode is always a key of
\* commonOptions, with the value undefined when the argument is omitted
DocumentOptions(parse_mode) == IF parse_mode = "omitted" THEN "blobUndef" ELSE "blob"

\* reply(message, parse_mode); long: message.length > 4096
Reply(ctx, long, parse_mode) ==
  IF ctx.update_type = NoType THEN Returns
  ELSE IF GetChatIdThrows(ctx) \/ GetReplyToMessageIdThrows(ctx) THEN Raises
  ELSE IF long /\ ctx.update_type # "inline"
       THEN Calls("sendDocument", DocumentOptions(parse_mode), TRUE)
  ELSE CASE ctx.update_type \in MessageKinds -> Calls("sendMessage", "params", TRUE)
         [] ctx.update_type = "inline" -> Calls("answerInline", "params", TRUE)
         [] ctx.update_type = "business_message" ->
              IF BusinessConnectionIdThrows(ctx) THEN Raises
              ELSE Calls("sendMessage", "params", FALSE)
         [] OTHER -> Returns

\* replyPhoto(photo, caption)
ReplyPhoto(ctx) ==
  IF ctx.update_type = NoType THEN Returns
  ELSE IF GetChatIdThrows(ctx) \/ GetReplyToMessageIdThrows(ctx) THEN Raises
  ELSE CASE ctx.update_type \in {"message", "photo"} -> Calls("sendPhoto", "params", FALSE)
         [] ctx.update_type = "inline" -> Calls("answerInline", "params", TRUE)
         [] OTHER -> Returns

\* replyVideo(video)
ReplyVideo(ctx) ==
  IF ctx.update_type = NoType THEN Returns
  ELSE CASE ctx.update_type = "message" ->
              IF GetChatIdThrows(ctx) \/ GetReplyToMessageIdThrows(ctx) THEN Raises
              ELSE Calls("sendVideo", "params", FALSE)
         [] ctx.update_type = "inline" -> Calls("answerInline", "params", TRUE)
         [] OTHER -> Returns

\* sendTyping()
SendTyping(ctx) ==
  IF ctx.update_type = NoType THEN Returns
  ELSE IF GetChatIdThrows(ctx) THEN Raises
  ELSE CASE ctx.update_type \in MessageKinds -> Calls("sendChatAction", "params", FALSE)
         [] ctx.update_type = "business_message" ->
              IF BusinessConnectionIdThrows(ctx) THEN Raises
              ELSE Calls("sendChatAction", "params", FALSE)
         [] OTHER -> Returns

\* variant of replyInline without the test of the kind
ReplyInlineAnyKind(ctx) == Calls("answerInline", "params", TRUE)
\* replyInline(title, message, parse_mode)
ReplyInline(ctx) ==
  IF ctx.update_type # "inline" THEN Returns ELSE Calls("answerInline", "params", TRUE)

\* `params.file_id` as TelegramApi.getFile reads it when handed the string
\* itself: a string has no such property, the value is undefined
FileIdOfString(file_id) == ""
\* getFile(file_id): `this.api.getFile(file_id, this.bot.token)`
GetFile(file_id) == Calls("getFile", FileIdOfString(file_id), FALSE)

CtxOps == {"reply", "replyPhoto", "replyVideo", "sendTyping", "replyInline", "getFile"}
\* the arguments that decide an operation's path
NoArgs == [long |-> FALSE, parse_mode |-> "omitted", file_id |-> ""]
CtxArgs(op) ==
  CASE op = "reply" -> [long : BOOLEAN, parse_mode : {"omitted", "HTML"}, file_id : {""}]
    [] op = "getFile" -> [long : {FALSE}, parse_mode : {"omitted"}, file_id : {"", "file1"}]
    [] OTHER -> {NoArgs}

CtxPlan(ctx, op, a) ==
  CASE op = "reply" -> Reply(ctx, a.long, a.parse_mode)
    [] op = "replyPhoto" -> ReplyPhoto(ctx)
    [] op = "replyVideo" -> ReplyVideo(ctx)
    [] op = "sendTyping" -> SendTyping(ctx)
    [] op = "replyInline" -> ReplyInline(ctx)
    [] op = "getFile" -> GetFile(a.file_id)

\* no operation of the context called yet
IdleCall ==
  [phase |-> "idle", op |-> "none", args |-> NoArgs, plan |-> Returns,
   outcome |-> "none", value |-> "none", requests |-> 0, passes |-> 0]

\* how an operation ends once its client call has settled: an exception of
\* the call is caught where the call is inside a try/catch, otherwise it
\* propagates
Settle(plan, result) ==
  IF result = "throw" /\ ~plan.guarded THEN "raised" ELSE "returned"

\* an operation of the context is called and runs to its first await (the
\* client call) or to its end
CtxInvoke(op, a) ==
  LET plan == CtxPlan(repCtx, op, a)
  IN /\ rep.phase \in {"idle", "done"}
     /\ IF plan.kind = "call"
        THEN /\ ops' = [ops EXCEPT ![1] = [op |-> plan.method, arg |-> plan.arg, pc |-> 1,
                                          passes |-> 0, fetches |-> 0, result |-> "none"]]
             /\ rep' = [IdleCall EXCEPT !.phase = "calling", !.op = op, !.args = a,
                                        !.plan = plan]
        ELSE /\ ops' = ops
             /\ rep' = [IdleCall EXCEPT !.phase = "done", !.op = op, !.args = a,
                                        !.plan = plan,
                                        !.outcome = IF plan.kind = "raise" THEN "raised"
                                                    ELSE "returned"]
     /\ UNCHANGED <<limVars, clsVars, botVars, repCtx, initCall, instOf, sinceReset, reqs>>

\* the client call has settled and the operation runs to its end
CtxSettle ==
  /\ rep.phase = "calling"
  /\ ops[1].result # "none"
  /\ rep' = [rep EXCEPT !.phase = "done",
                        !.outcome = Settle(rep.plan, ops[1].result),
                        !.value = ops[1].result,
                        !.requests = ops[1].fetches,
                        !.passes = ops[1].passes]
  /\ ops' = [ops EXCEPT ![1] = IdleOp]
  /\ UNCHANGED <<limVars, clsVars, botVars, repCtx, initCall, instOf, sinceReset, reqs>>

\* the updates of the contexts the operations are called on: every kind, with
\* and without the chat object, the message id and the business connection id
ReplyMessage(photo, document, chat, message_id) ==
  [EmptyUpdate EXCEPT !.message = [present |-> TRUE, text |-> TxtHi, photo |-> photo,
                                   document |-> document, chat |-> chat,
                                   message_id |-> message_id]]
ReplyBusiness(chat, message_id, business_connection_id) ==
  [EmptyUpdate EXCEPT !.business_message =
     [present |-> TRUE, text |-> TxtHi, chat |-> chat, message_id |-> message_id,
      business_connection_id |-> business_connection_id]]
ReplyUpdates ==
  {ReplyMessage(FALSE, FALSE, TRUE, TRUE), ReplyMessage(FALSE, FALSE, FALSE, TRUE),
   ReplyMessage(FALSE, FALSE, TRUE, FALSE),
   ReplyMessage(TRUE, FALSE, TRUE, TRUE), ReplyMessage(TRUE, FALSE, FALSE, TRUE),
   ReplyMessage(FALSE, TRUE, TRUE, TRUE), ReplyMessage(FALSE, TRUE, TRUE, FALSE),
   ReplyBusiness(TRUE, TRUE, TRUE), ReplyBusiness(FALSE, TRUE, TRUE),
   ReplyBusiness(TRUE, FALSE, TRUE), ReplyBusiness(TRUE, TRUE, FALSE),
   InlineUpdate(TxtGo), CallbackUpdate, EmptyUpdate}

\* ------------------------------------------ TelegramBot.initializeCommands
\* the registries and the command list
Registries == [commands |-> commands, events |-> events, commandList |-> commandList]
NoRegistries == [commands |-> <<>>, events |-> <<>>, commandList |-> <<>>]

\* no initializeCommands() called yet
IdleInit ==
  [phase |-> "idle", nth |-> 0, before |-> NoRegistries, after |-> NoRegistries,
   payload |-> <<>>, requests |-> 0, value |-> "none", outcome |-> "none"]

\* variant of the test of the command list that sends an empty list too
MustSendAlways(list) == TRUE
\* `if (this.commandList.length > 0)`
MustSend(list) == Len(list) > 0

\* initializeCommands() up to `await this.api.setMyCommands(this.commandList)`,
\* or to its end when the list is empty
InitializeBegin ==
  /\ initCall.phase \in {"idle", "done"}
  /\ IF MustSend(commandList)
     THEN /\ ops' = [ops EXCEPT ![1] = [op |-> "setMyCommands", arg |-> "params", pc |-> 1,
                                       passes |-> 0, fetches |-> 0, result |-> "none"]]
          /\ initCall' = [IdleInit EXCEPT !.phase = "calling",
                                          !.nth = IF initCall.nth < 2 THEN initCall.nth + 1 ELSE 2,
                                          !.before = Registries,
                                          !.payload = commandList]
     ELSE /\ ops' = ops
          /\ initCall' = [IdleInit EXCEPT !.phase = "done",
                                          !.nth = IF initCall.nth < 2 THEN initCall.nth + 1 ELSE 2,
                                          !.before = Registries,
                                          !.after = Registries,
                                          !.outcome = "returned"]
  /\ UNCHANGED <<limVars, clsVars, botVars, repCtx, rep, instOf, sinceReset, reqs>>

\* the call has settled: ok and ok = false are logged, an exception is caught
\* and logged; `return this`
InitializeEnd ==
  /\ initCall.phase = "calling"
  /\ ops[1].result # "none"
  /\ initCall' = [initCall EXCEPT !.phase = "done",
                                  !.after = Registries,
                                  !.requests = ops[1].fetches,
                                  !.value = ops[1].result,
                                  !.outcome = "returned"]
  /\ ops' = [ops EXCEPT ![1] = IdleOp]
  /\ UNCHANGED <<limVars, clsVars, botVars, repCtx, rep, instOf, sinceReset, reqs>>

\* ------------------------------------------------ TelegramApi instances
\* two clients, `new TelegramApi(token)` with different tokens
Instances == {"tokA", "tokB"}
NoneThrough == [i \in Instances |-> 0]

\* rateLimit() called through instance i: the limiter fields are static, the
\* call reads and writes the same requestCount and resetTime as every other
InstanceCall(i) ==
  LET c == entered + 1
      base == IF Expired(now, resetTime) THEN NoneThrough ELSE sinceReset
  IN /\ entered < MaxCalls
     /\ Cardinality(DOMAIN due) < MaxSleepers
     /\ RateLimitEnter(c)
     /\ entered' = c
     /\ instOf' = [d \in (DOMAIN due) \cup {c} |-> IF d = c THEN i ELSE instOf[d]]
     /\ sinceReset' = IF c \in DOMAIN due' THEN base ELSE [base EXCEPT ![i] = @ + 1]
     /\ UNCHANGED <<ops, clsVars, botVars, repCtx, rep, initCall, reqs>>

\* a suspended call resumes
InstanceResume(c) ==
  /\ RateLimitResume(c)
  /\ instOf' = [d \in (DOMAIN instOf) \ {c} |-> instOf[d]]
  /\ sinceReset' = [i \in Instances |-> IF i = instOf[c] THEN 1 ELSE 0]
  /\ UNCHANGED <<entered, ops, clsVars, botVars, repCtx, rep, initCall, reqs>>

\* ------------------------------------------------- auxiliary start state
\* ------------------------------------------- overlapping handle() calls
\* two requests handled by one TelegramBot at the same time
ReqSlots == {1, 2}

\* one call of handle(): its position, the update in its request body, the
\* local `ctx` its handler was called with
IdleSlot ==
  [phase |-> "idle", update |-> EmptyUpdate, ctx |-> NoContext, invoked |-> <<>>,
   response |-> NoResponse]
IdleSlots == [k \in ReqSlots |-> IdleSlot]

\* the updates posted by the overlapping requests
OverlapUpdates == {MsgUpdate(TxtGo), MsgUpdate(TxtHi), InlineUpdate(TxtGo), CallbackUpdate}

\* variant of UpdateAtConstruction that reads `this.update` as it was before
\* this call assigned it
UpdateAtConstructionStale(assigned, before) == before
\* the value of `this.update` passed to the TelegramExecutionContext
\* constructor: the assignment and the read are in one synchronous run
UpdateAtConstruction(assigned, before) == assigned

\* handle(request) with a POST to the token path, up to `await request.json()`
SlotBegin(k, u) ==
  /\ reqs[k].phase = "idle"
  /\ reqs' = [reqs EXCEPT ![k] = [IdleSlot EXCEPT !.phase = "parsing", !.update = u]]
  /\ webhook' = RequestWebhook
  /\ UNCHANGED <<commands, events, commandList, botUpdate, currentContext, req, limVars, ops,
                 clsVars, repCtx, rep, initCall, instOf, sinceReset>>

\* `await request.json()` settles: `this.update` and `this.currentContext`
\* are assigned, and the handler is called with the local `ctx`
SlotParsed(k) ==
  /\ reqs[k].phase = "parsing"
  /\ botUpdate' = reqs[k].update
  /\ LET ctx == NewContext(UpdateAtConstruction(botUpdate', botUpdate))
         res == Resolve(ctx)
     IN /\ currentContext' = ctx
        /\ reqs' = [reqs EXCEPT ![k] =
                      IF res.calls # <<>>
                      THEN [@ EXCEPT !.phase = "handler", !.ctx = ctx, !.invoked = res.calls]
                      ELSE [@ EXCEPT !.phase = "done", !.ctx = ctx, !.response = res.response]]
  /\ UNCHANGED <<webhook, commands, events, commandList, req, limVars, ops, clsVars,
                 repCtx, rep, initCall, instOf, sinceReset>>

\* the awaited handler settles
SlotSettles(k, outcome) ==
  /\ reqs[k].phase = "handler"
  /\ reqs' = [reqs EXCEPT ![k] =
                [@ EXCEPT !.phase = "done",
                          !.response = IF outcome = "throw" THEN OnException("handler")
                                       ELSE HandleResult(Produced(outcome))]]
  /\ UNCHANGED <<botVars, limVars, ops, clsVars, repCtx, rep, initCall, instOf, sinceReset>>

\* handle() returns its Response
SlotReturn(k) ==
  /\ reqs[k].phase = "done"
  /\ reqs' = [reqs EXCEPT ![k] = IdleSlot]
  /\ UNCHANGED <<botVars, limVars, ops, clsVars, repCtx, rep, initCall, instOf, sinceReset>>

AuxStart ==
  /\ repCtx = NoContext
  /\ rep = IdleCall
  /\ initCall = IdleInit
  /\ instOf = <<>>
  /\ sinceReset = NoneThrough
  /\ reqs = IdleSlots

\* ------------------------------------------------ limiter specification
LimInit == LimStart /\ ApiStart /\ ClsStart /\ BotStart /\ AuxStart

LimCall ==
  /\ entered < MaxCalls
  /\ Cardinality(DOMAIN due) < MaxSleepers
  /\ RateLimitEnter(entered + 1)
  /\ entered' = entered + 1
  /\ UNCHANGED <<ops, clsVars, auxVars, botVars>>

LimResume ==
  \E c \in DOMAIN due : RateLimitResume(c) /\ UNCHANGED <<entered, ops, clsVars, auxVars, botVars>>

LimNext == Advance \/ LimCall \/ LimResume

SpecLimiter == LimInit /\ [][LimNext]_vars

\* C1: within one limiter window at most 30 calls proceed past the limiter
C1_WindowCap == winPassed <= RateCap

\* C2: a call that finds fewer than 30 calls already through in the current
\* window proceeds without suspension; the call that finds 30 already through
\* (the 31st) is suspended and does not proceed before that window's end; when
\* it proceeds the count is restarted and the window end is resume time + 1000
C2_ThirtyFirstWaits ==
  /\ (lastEntry.id # 0 /\ lastEntry.ahead < RateCap) => ~lastEntry.suspended
  /\ (lastEntry.id # 0 /\ lastEntry.ahead >= RateCap) => lastEntry.suspended
  /\ lastResume.id # 0 =>
       /\ lastResume.at >= lastResume.windowEnd
       /\ lastResume.countAfter = 1
       /\ lastResume.resetAfter = lastResume.at + WindowMs

\* C3: the shared count stays between 0 and the cap
C3_CountInRange == requestCount \in 0..RateCap
C3_Witness == requestCount = RateCap /\ lastResume.id # 0

\* C23: calls pass the limiter in the order in which they entered it: a call
\* that proceeds at its entry leaves no earlier caller suspended behind it
C23_IncrementsInCallOrder ==
  (lastEntry.id # 0 /\ ~lastEntry.suspended) =>
    \A d \in DOMAIN due : d > lastEntry.id

\* the limiter with timers that fire: time passes, and the continuation of a
\* suspended caller runs once its timer is due
Callers == 1..MaxLiveCalls
LiveCall == entered < MaxLiveCalls /\ LimCall
LiveNext == Advance \/ LiveCall \/ LimResume
LimFairness ==
  /\ WF_vars(Advance)
  /\ \A c \in Callers :
       WF_vars(RateLimitResume(c) /\ UNCHANGED <<entered, ops, clsVars, auxVars, botVars>>)

SpecLimiterLive == LimInit /\ [][LiveNext]_vars /\ LimFairness

\* C22: every suspended caller (whose timer falls within the modelled time)
\* eventually proceeds, whatever the number of callers; and a call made after
\* the window end while other callers are suspended proceeds at once
C22_EveryCallerProceeds ==
  /\ \A c \in Callers :
       (c \in DOMAIN due /\ due[c].timer <= MaxTime) ~> (c \notin DOMAIN due)
  /\ [][(entered' = entered + 1 /\ now > resetTime /\ DOMAIN due # {}) =>
          (DOMAIN due' = DOMAIN due /\ requestCount' = 1)]_vars
C22_Witness ==
  /\ DOMAIN due # {}
  /\ lastResume.id # 0
  /\ lastEntry.id \notin DOMAIN due
  /\ ~lastEntry.suspended
  /\ \E c \in DOMAIN due : c < lastEntry.id /\ now > due[c].windowEnd /\ now > due[c].timer

\* C24: a call made at or after the window end (now >= window end) resets
\* the window before it is counted: afterwards the count is 1 and the window
\* end is now + 1000; a call made before the window end with a count below 30
\* raises the count by 1, leaves the window end alone and is not suspended
C24_ResetAtWindowEnd ==
  /\ [][(entered' = entered + 1 /\ now >= resetTime) =>
          (requestCount' = 1 /\ resetTime' = now + WindowMs)]_vars
  /\ [][(entered' = entered + 1 /\ now < resetTime /\ requestCount < RateCap) =>
          (requestCount' = requestCount + 1 /\ resetTime' = resetTime /\ due' = due)]_vars

\* --------------------------------------- shared limiter specification
SharedInit == LimStart /\ ApiStart /\ ClsStart /\ BotStart /\ AuxStart

SharedNext ==
  \/ Advance
  \/ \E i \in Instances : InstanceCall(i)
  \/ \E c \in DOMAIN due : InstanceResume(c)

SpecShared == SharedInit /\ [][SharedNext]_vars

\* the one count holds the calls of both instances that proceeded since it
\* was last zeroed
SharedCountIsSum == requestCount = sinceReset["tokA"] + sinceReset["tokB"]

\* C20: the calls made through both instances are counted in the one shared
\* count, and the call that finds 30 calls already through in the current
\* window (the 31st) is suspended, whichever instance issues it
C20_SharedByInstances ==
  /\ SharedCountIsSum
  /\ (lastEntry.id # 0 /\ lastEntry.ahead >= RateCap) => lastEntry.suspended

\* ---------------------------------------- outbound client specification
FetchOutcomes == {"ok", "fail", "throw"}

ApiInit == LimStart /\ ApiStart /\ ClsStart /\ BotStart /\ AuxStart

ApiNext ==
  \/ Advance
  \/ \E s \in ApiSlots : \E op \in ApiOps : \E arg \in ApiArgs(op) : ApiInvoke(s, op, arg)
  \/ \E s \in ApiSlots : ApiRateLimit(s)
  \/ \E s \in ApiSlots : ApiResume(s)
  \/ \E s \in ApiSlots : ApiCheckFileId(s)
  \/ \E s \in ApiSlots : \E o \in FetchOutcomes : ApiFetch(s, o)
  \/ \E s \in ApiSlots : \E o \in FetchOutcomes : ApiFetchFile(s, o)
  \/ \E s \in ApiSlots : ApiBuildForm(s)
  \/ \E s \in ApiSlots : ApiReturn(s)

SpecApi == ApiInit /\ [][ApiNext]_vars

\* C4: every request of a send/answer/action operation is preceded by a pass
\* of that operation through the rate limiter
C4_SendsAreLimited ==
  \A s \in ApiSlots :
    (ops[s].op \in SendOps /\ ops[s].fetches > 0) => ops[s].passes >= 1

\* C17: a getFile() that has ended after the metadata request alone (the
\* request answered ok = false or threw) has returned the error response and
\* has not raised
C17_MetadataFailureIsErrorResponse ==
  \A s \in ApiSlots :
    (ops[s].op = "getFile" /\ ops[s].result # "none" /\ ops[s].fetches = 1) =>
      ops[s].result = "400"

\* C21: a sendDocument() that has ended has issued exactly one request,
\* multipart for a Blob and a JSON POST otherwise, also when the parameters
\* hold an extra key whose value is undefined
C21_DocumentSendIssuesOne ==
  \A s \in ApiSlots :
    (ops[s].op = "sendDocument" /\ ops[s].result # "none") =>
      /\ ops[s].fetches = 1
      /\ StepOf([ops[s] EXCEPT !.pc = 1]) = IF IsBlob(ops[s].arg) THEN "form" ELSE "rateLimit"

\* C29: an operation that has issued one upstream API request has passed the
\* limiter exactly once, setMyCommands and getFile's metadata call as well as
\* the plain sends; each pass raised the limiter count by one
C29_OnePassPerRequest ==
  \A s \in ApiSlots :
    (ops[s].op # "none" /\ ops[s].fetches = 1) => ops[s].passes = 1

\* ----------------------------------------- execution context specification
ReplyInit ==
  /\ LimStart /\ ApiStart /\ ClsStart /\ BotStart
  /\ repCtx \in {NewContext(u) : u \in ReplyUpdates}
  /\ rep = IdleCall
  /\ initCall = IdleInit
  /\ instOf = <<>>
  /\ sinceReset = NoneThrough
  /\ reqs = IdleSlots

ReplyNext ==
  \/ Advance
  \/ \E op \in CtxOps : \E a \in CtxArgs(op) : CtxInvoke(op, a)
  \/ ApiRateLimit(1)
  \/ ApiResume(1)
  \/ ApiBuildForm(1)
  \/ ApiCheckFileId(1)
  \/ \E o \in FetchOutcomes : ApiFetch(1, o)
  \/ CtxSettle

SpecReply == ReplyInit /\ [][ReplyNext]_vars

\* no operation of the context reaches the binary fetch of getFile
ReplyNeverFetchesFile == StepOf(ops[1]) # "fetchFile"

ReplyOps == {"reply", "replyPhoto", "replyVideo", "sendTyping", "replyInline"}
\* the context's update has the chat object, the message id and the business
\* connection id of its kind
WellFormed(ctx) ==
  /\ ~GetChatIdThrows(ctx)
  /\ ~GetReplyToMessageIdThrows(ctx)
  /\ ~BusinessConnectionIdThrows(ctx)

\* C13: a finished reply() with a text of more than 4096 characters has, on
\* a context of kind Message and with the format argument given or omitted,
\* issued exactly one sendDocument request with the text as a Blob and no
\* sendMessage; on a context of kind Inline, one answerInline request
C13_LongReplyIsDocument ==
  (rep.phase = "done" /\ rep.op = "reply" /\ rep.args.long /\ WellFormed(repCtx)) =>
    /\ repCtx.update_type = "message" =>
         /\ rep.plan.method = "sendDocument"
         /\ IsBlob(rep.plan.arg)
         /\ rep.requests = 1
    /\ repCtx.update_type = "inline" =>
         /\ rep.plan.method = "answerInline"
         /\ rep.requests = 1

\* C14: a reply operation whose outbound call answered ok = false or threw
\* returns normally
C14_RepliesSwallowFailures ==
  (/\ rep.phase = "done"
   /\ rep.op \in ReplyOps
   /\ rep.plan.kind = "call"
   /\ rep.value \in {"fail", "throw"}) =>
    rep.outcome = "returned"

\* C15: on a classified update, with or without the chat object and the
\* message id, a reply operation does not raise while it resolves the chat
\* id and the reply-target id, and a chat id that cannot be resolved is ''
C15_IdsNeverRaise ==
  (/\ rep.phase = "done"
   /\ rep.op \in ReplyOps
   /\ repCtx.update_type # NoType
   /\ ~BusinessConnectionIdThrows(repCtx)) =>
    /\ rep.plan.kind # "raise"
    /\ repCtx.update_type \in {"inline", "callback"} => GetChatId(repCtx) = ""

\* the kinds on which an operation is outside its supported set
Unsupported(op, a, kind) ==
  \/ op \in ReplyOps /\ kind = NoType
  \/ op = "reply" /\ ~a.long /\ kind = "callback"
  \/ op = "replyPhoto" /\ kind \in {"document", "callback", "business_message"}
  \/ op = "replyVideo" /\ kind \in {"photo", "document", "callback", "business_message"}
  \/ op = "sendTyping" /\ kind \in {"inline", "callback"}
  \/ op = "replyInline" /\ kind # "inline"

\* C25: a reply operation called on a kind outside its supported set, or on
\* a context with no kind, issues no outbound call
C25_NoCallOutsideSupportedKinds ==
  (rep.phase # "idle" /\ Unsupported(rep.op, rep.args, repCtx.update_type)) =>
    /\ rep.phase = "done"
    /\ rep.plan.kind # "call"
    /\ rep.requests = 0
    /\ ops[1] = IdleOp
C25_Witness ==
  /\ rep.phase = "done"
  /\ rep.op = "replyInline"
  /\ repCtx.update_type = "message"
  /\ rep.outcome = "returned"
  /\ requestCount > 0

\* C16: a finished getFile(file_id) with a non-empty file id has performed
\* the metadata request, and after a successful metadata request the binary
\* fetch, whose response it returns
C16_GetFileFetches ==
  (rep.phase = "done" /\ rep.op = "getFile" /\ rep.args.file_id # "") =>
    /\ rep.requests >= 1
    /\ rep.requests = 2 => rep.value \in {"file", "throw"}

\* ------------------------------------------ command setup specification
\* registrations and initializeCommands() are called one after another
SetupInit == LimStart /\ ApiStart /\ ClsStart /\ BotStart /\ AuxStart

SetupKinds == {"message", "inline"}

SetupNext ==
  \/ Advance
  \/ \E name \in CmdNames : initCall.phase # "calling" /\ OnCommand(name)
  \/ \E type \in SetupKinds : initCall.phase # "calling" /\ OnEvent(type)
  \/ InitializeBegin
  \/ ApiRateLimit(1)
  \/ ApiResume(1)
  \/ \E o \in FetchOutcomes : ApiFetch(1, o)
  \/ InitializeEnd

SpecSetup == SetupInit /\ [][SetupNext]_vars

\* C18: a finished initializeCommands() has issued exactly one setMyCommands
\* request, carrying the whole command list in registration order, if the
\* list was not empty, and none if it was empty; it has left the command
\* list and both registries as they were and has returned normally, whatever
\* the upstream answered
C18_InitializeSendsListOnce ==
  initCall.phase = "done" =>
    /\ initCall.outcome = "returned"
    /\ Len(initCall.before.commandList) > 0 =>
         (initCall.requests = 1 /\ initCall.payload = initCall.before.commandList)
    /\ Len(initCall.before.commandList) = 0 => initCall.requests = 0
    /\ initCall.after = initCall.before
C18_Witness ==
  /\ initCall.phase = "done"
  /\ initCall.nth = 2
  /\ initCall.payload = <<CmdGo, CmdToString>>
  /\ initCall.requests = 1
  /\ initCall.value = "throw"
  /\ DOMAIN events # {}

\* ---------------------------------------------- classifier specification
ClsInit ==
  /\ LimStart /\ ApiStart /\ BotStart /\ AuxStart
  /\ clsUpdate \in Updates
  /\ clsContext = NoContext

Construct ==
  /\ clsContext = NoContext
  /\ ~ConstructorThrows(clsUpdate)
  /\ clsContext' = NewContext(clsUpdate)
  /\ UNCHANGED <<clsUpdate, limVars, ops, botVars, auxVars>>

ClsNext == Construct

SpecClassify == ClsInit /\ [][ClsNext]_vars

\* C10: the classifier returns the kind of the first matching predicate in the
\* order Photo, Document, Message, Inline, Callback, BusinessMessage, none when
\* none matches; a message with photo and text is Photo; at most one kind
C10_FirstMatchOrder ==
  clsContext # NoContext =>
    LET u == clsUpdate
        k == clsContext.update_type
        hasPhoto == u.message.present /\ u.message.photo
        hasDoc == u.message.present /\ u.message.document
        hasText == u.message.present /\ u.message.text # Empty
        hasQuery == u.inline_query.present /\ u.inline_query.query # Empty
        hasCb == u.callback_query.present /\ u.callback_query.id # Empty
        hasBiz == u.business_message.present
    IN /\ hasPhoto => k = "photo"
       /\ (~hasPhoto /\ hasDoc) => k = "document"
       /\ (~hasPhoto /\ ~hasDoc /\ hasText) => k = "message"
       /\ (~hasPhoto /\ ~hasDoc /\ ~hasText /\ hasQuery) => k = "inline"
       /\ (~hasPhoto /\ ~hasDoc /\ ~hasText /\ ~hasQuery /\ hasCb) => k = "callback"
       /\ (~hasPhoto /\ ~hasDoc /\ ~hasText /\ ~hasQuery /\ ~hasCb /\ hasBiz)
            => k = "business_message"
       /\ (~hasPhoto /\ ~hasDoc /\ ~hasText /\ ~hasQuery /\ ~hasCb /\ ~hasBiz) => k = NoType
       /\ k \in UpdateTypes \cup {NoType}
C10_Witness ==
  /\ clsContext # NoContext
  /\ clsUpdate.message.present /\ clsUpdate.message.photo /\ clsUpdate.message.text # Empty
  /\ clsUpdate.inline_query.present /\ clsUpdate.inline_query.query # Empty
  /\ clsContext.update_type = "photo"

\* the text of an update of kind Message or BusinessMessage
TextOfKind(k, u) == IF k = "message" THEN u.message.text ELSE u.business_message.text
Whitespace == {" ", "\t", "\n"}
\* the part of a text after its first character and before its first
\* whitespace character
FirstToken(t) ==
  LET stops == {i \in 2..Len(t) : t[i] \in Whitespace}
      end == IF stops = {} THEN Len(t) + 1 ELSE CHOOSE i \in stops : \A j \in stops : i <= j
  IN SubSeq(t, 2, end - 1)

\* C11: for a Message or BusinessMessage update whose text starts with '/',
\* the command is the text between the slash and the first space, tab or
\* newline (or the end of the text), case and '@suffix' unchanged
C11_CommandIsFirstToken ==
  (/\ clsContext # NoContext
   /\ clsContext.update_type \in {"message", "business_message"}
   /\ StartsWith(TextOfKind(clsContext.update_type, clsUpdate), "/")) =>
    clsContext.command = FirstToken(TextOfKind(clsContext.update_type, clsUpdate))

\* C12: a context carries a command only if its kind is Message or
\* BusinessMessage and the text of that kind starts with '/'; every other
\* context has the null command
C12_NoCommandOtherwise ==
  (clsContext # NoContext /\ clsContext.command # NullCommand) =>
    /\ clsContext.update_type \in {"message", "business_message"}
    /\ StartsWith(TextOfKind(clsContext.update_type, clsUpdate), "/")
C12_Witness ==
  /\ clsContext # NoContext
  /\ clsContext.update_type = "photo"
  /\ clsUpdate.message.text = TxtGo
  /\ clsUpdate.inline_query.query = TxtGo
  /\ clsContext.command = NullCommand

\* ---------------------------------------------- dispatcher specification
Outcomes == {"ok", "throw"}

BotInit == LimStart /\ ApiStart /\ ClsStart /\ BotStart /\ AuxStart

BotNext ==
  \/ \E n \in CmdNames : OnCommand(n)
  \/ \E t \in UpdateTypes : OnEvent(t)
  \/ \E r \in Requests : HandleBegin(r)
  \/ HandleParsed
  \/ \E o \in HandlerOutcomes : HandlerSettles(o)
  \/ \E o \in Outcomes : WebhookSettles(o)
  \/ HandleReturn

SpecBot == BotInit /\ [][BotNext]_vars

\* the command handler and the kind handler registered for the context of the
\* request in progress
RegisteredCommand == req.ctx.command # NullCommand /\ req.ctx.command \in DOMAIN commands
RegisteredKind == req.ctx.update_type \in DOMAIN events
Dispatched == req.ctxBuilt /\ req.phase \in {"handler", "done"}

\* C5: a classified update goes to the handler registered under its extracted
\* command when there is one, and the kind handler is then not invoked;
\* otherwise to the handler registered for its kind when there is one
C5_CommandThenKind ==
  (Dispatched /\ req.ctx.update_type # NoType) =>
    /\ RegisteredCommand => req.invoked = <<CmdHandler(req.ctx.command)>>
    /\ (~RegisteredCommand /\ RegisteredKind) =>
         req.invoked = <<EvtHandler(req.ctx.update_type)>>

\* C6: one call of handle() invokes at most one handler function
C6_AtMostOneHandler == Len(req.invoked) <= 1
C6_Witness ==
  /\ req.phase = "done"
  /\ req.invoked = <<CmdHandler(CmdGo)>>
  /\ "message" \in DOMAIN events

\* C7: a POST to the token path gets a 400 response and no handler is invoked
\* when no registered command handler matches and no handler is registered for
\* the kind, or when no kind was classified
C7_NoHandlerIs400 ==
  (Dispatched /\ (req.ctx.update_type = NoType \/ (~RegisteredCommand /\ ~RegisteredKind))) =>
    /\ req.invoked = <<>>
    /\ req.phase = "done"
    /\ req.response.status = 400

\* C8: a request whose path is not /<token> gets a success response, its body
\* is not parsed, no context is built and no handler is invoked
C8_WrongPathAccepted ==
  (req.phase # "idle" /\ req.path # TokenPath) =>
    /\ req.phase = "done"
    /\ req.response = Ok200
    /\ ~req.jsonCalled
    /\ ~req.ctxBuilt
    /\ req.invoked = <<>>
C8_Witness ==
  /\ req.phase = "done"
  /\ req.method = "POST"
  /\ req.path = TokenPath \o "/x"
  /\ req.body = "json"
  /\ DOMAIN commands # {}

\* C9: handle() never raises; an exception thrown inside it gives a 500 response
C9_ExceptionsBecome500 ==
  /\ req.response # Raised
  /\ (req.phase = "done" /\ req.threw) => req.response.status = 500
C9_Witness ==
  /\ req.phase = "done"
  /\ req.threw
  /\ req.invoked # <<>>
  /\ req.response.status = 500

\* C19: handle() of a POST to the token path that invoked a handler which
\* resolved returns exactly the handler's response, and once the context of
\* a request is built currentContext holds the kind classified from that
\* request's update and the command extracted from it, also when an earlier
\* request had left its context there
C19_HandlerResponseAndContext ==
  /\ (req.phase = "done" /\ req.invoked # <<>> /\ ~req.threw) =>
       /\ req.method = "POST" /\ req.path = TokenPath
       /\ req.response = req.produced
  /\ (req.phase = "done" /\ req.ctxBuilt) =>
       /\ currentContext.update = req.update
       /\ currentContext.update_type = Classify(req.update)
       /\ currentContext.command = ExtractCommand(Classify(req.update), req.update)
       /\ req.update = MsgUpdate(TxtGoArgs) =>
            (currentContext.update_type = "message" /\ currentContext.command = CmdGo)
       /\ req.update = MsgUpdate(TxtHi) =>
            (currentContext.update_type = "message" /\ currentContext.command = NullCommand)
       /\ req.update = InlineUpdate(TxtGo) =>
            (currentContext.update_type = "inline" /\ currentContext.command = NullCommand)
C19_Witness ==
  /\ req.phase = "done"
  /\ req.hadContext
  /\ botUpdate = InlineUpdate(TxtGo)
  /\ req.invoked = <<EvtHandler("inline")>>
  /\ req.response = HandlerResponseCreated
  /\ currentContext.update_type = "inline"
  /\ CmdGo \in DOMAIN commands

\* C28: every function handle() calls as a handler was passed to onCommand or
\* onEvent before; for a Message update whose extracted command was never
\* registered no command handler is called, and the update goes to the kind
\* handler or to the no-handler response
C28_OnlyRegisteredInvoked ==
  /\ \A i \in 1..Len(req.invoked) :
       \/ \E n \in DOMAIN commands : req.invoked[i] = CmdHandler(n)
       \/ \E t \in DOMAIN events : req.invoked[i] = EvtHandler(t)
  /\ (Dispatched /\ req.ctx.update_type = "message" /\ Truthy(req.ctx.command)
        /\ req.ctx.command \notin DOMAIN commands) =>
       IF RegisteredKind
       THEN req.invoked = <<EvtHandler(req.ctx.update_type)>>
       ELSE req.invoked = <<>> /\ (req.phase = "done" => req.response = NoHandler400)

\* ------------------------------------- overlapping requests specification
OverlapInit == LimStart /\ ApiStart /\ ClsStart /\ BotStart /\ AuxStart

AllIdle == \A k \in ReqSlots : reqs[k].phase = "idle"

OverlapNext ==
  \/ AllIdle /\ OnCommand(CmdGo)
  \/ \E t \in {"message", "inline"} : AllIdle /\ OnEvent(t)
  \/ \E k \in ReqSlots, u \in OverlapUpdates : SlotBegin(k, u)
  \/ \E k \in ReqSlots : SlotParsed(k)
  \/ \E k \in ReqSlots, o \in HandlerOutcomes : SlotSettles(k, o)
  \/ \E k \in ReqSlots : SlotReturn(k)

SpecOverlap == OverlapInit /\ [][OverlapNext]_vars

\* C26: when two requests are handled at the same time, the handler of each
\* is called with the execution context built from the update of its own
\* request: its kind, its command and its raw update are those of that
\* request, whatever the other request has stored on the bot
C26_HandlerSeesOwnContext ==
  \A k \in ReqSlots :
    reqs[k].invoked # <<>> =>
      /\ reqs[k].ctx.update = reqs[k].update
      /\ reqs[k].ctx.update_type = Classify(reqs[k].update)
      /\ reqs[k].ctx.command = ExtractCommand(Classify(reqs[k].update), reqs[k].update)
C26_Witness ==
  /\ reqs[1].phase = "handler" /\ reqs[2].phase = "handler"
  /\ reqs[1].update = MsgUpdate(TxtGo) /\ reqs[2].update = InlineUpdate(TxtGo)
  /\ botUpdate = reqs[2].update /\ currentContext = reqs[2].ctx
  /\ reqs[1].ctx.update_type = "message" /\ reqs[2].ctx.update_type = "inline"

\* ------------------------------------------ bot lifecycle specification
LifecycleInit == LimStart /\ ApiStart /\ ClsStart /\ BotStart /\ AuxStart

\* the requests handled between and after the registrations
LifecycleRequests ==
  {r \in Requests :
     /\ r.path = TokenPath
     /\ r.method = "POST" => (r.body = "json" /\ r.update = MsgUpdate(TxtGo))
     /\ r.method = "GET" => r.query = "set"
     /\ r.method # "PUT"}

LifecycleNext ==
  \/ \E name \in CmdNames : OnCommand(name)
  \/ \E type \in SetupKinds : OnEvent(type)
  \/ requestCount + 2 <= MaxSetupCalls /\ InitializeBegin
  \/ ApiRateLimit(1)
  \/ \E o \in FetchOutcomes : ApiFetch(1, o)
  \/ InitializeEnd
  \/ \E r \in LifecycleRequests : HandleBegin(r)
  \/ HandleParsed
  \/ \E o \in HandlerOutcomes : HandlerSettles(o)
  \/ \E o \in Outcomes : WebhookSettles(o)
  \/ HandleReturn

SpecLifecycle == LifecycleInit /\ [][LifecycleNext]_vars

\* a step of handle() or of initializeCommands()
HandleOrInitializeStep == req' # req \/ initCall' # initCall \/ ops' # ops
IsPrefix(a, b) == Len(a) <= Len(b) /\ \A i \in 1..Len(a) : a[i] = b[i]

\* C27: every registered command name and every registered kind keeps a
\* handler through any sequence of registrations, initializeCommands() and
\* handle() calls; the steps of handle() and initializeCommands() leave the
\* command map, the kind map and the command list as they are; the command
\* list is only ever extended at its end
C27_RegistriesAppendOnly ==
  /\ [](\A i \in 1..Len(commandList) : CommandsGet(commandList[i]) = CmdHandler(commandList[i]))
  /\ [][/\ \A n \in DOMAIN commands : n \in DOMAIN commands' /\ commands'[n] # Undefined
        /\ \A t \in DOMAIN events : t \in DOMAIN events' /\ events'[t] # Undefined
        /\ IsPrefix(commandList, commandList')]_vars
  /\ [][HandleOrInitializeStep => UNCHANGED <<commands, events, commandList>>]_vars
C27_Witness ==
  /\ commandList = <<CmdGo, CmdToString>>
  /\ DOMAIN commands = {CmdGo, CmdToString}
  /\ DOMAIN events = SetupKinds
  /\ initCall.phase = "done" /\ initCall.nth = 2 /\ initCall.requests = 1
  /\ req.phase = "done" /\ req.invoked = <<CmdHandler(CmdGo)>>

====
